---- MODULE Spec2Model ----
(***************************************************************************)
(* Molecule Explorer: the ingestion pipeline (backend/ingest) writing the  *)
(* five tables of the store, and the dynamic query engine                  *)
(* (backend/app/main.py) reading them.                                     *)
(*                                                                         *)
(* Numbers are fixed-point tenths: the cell "1.7" is Num(17), the float    *)
(* 5.0 is 50; int(float(x)) truncates a tenths value with \div 10.         *)
(***************************************************************************)
EXTENDS Integers, Sequences, FiniteSets, TLC

VARIABLES
    dataset,                \* table dataset
    ingest_run,             \* table ingest_run
    discovered_molecule,    \* table discovered_molecule
    molecule_geometry,      \* table molecule_geometry (GeometryHot)
    molecule_geometry_cold, \* table molecule_geometry_cold (GeometryCold)
    op,                     \* the ingest command in progress (cli.py), its locals
    atStart,                \* the tables as they were when that command began
    nops,                   \* commands started so far (the uuid4 source)
    nread,                  \* manifest rows and structural records read so far
    body,                   \* the query request (MoleculesQueryBody) and page size
    q,                      \* the query handler's locals and the paging client
    cell,                   \* a manifest text cell being converted, and the result
    web                     \* the API's connection pool and the requests in flight

vars == <<dataset, ingest_run, discovered_molecule, molecule_geometry,
          molecule_geometry_cold, op, atStart, nops, nread, body, q, cell, web>>

storeVars == <<dataset, ingest_run, discovered_molecule, molecule_geometry,
               molecule_geometry_cold>>

queryVars == <<body, q, cell, web>>

-----------------------------------------------------------------------------
(* Bounds of the model *)

\* commands run, manifest rows read and structural records read in one history;
\* paths given to one ingest_sdf command
MaxOps == 2
MaxRows == 2
MaxRecs == 2
MaxPaths == 2

-----------------------------------------------------------------------------
(* Values *)

\* SQL NULL / Python None, and a present value
Null == [k |-> "null"]
Val(v) == [k |-> "val", v |-> v]

\* A raw cell of a CSV row or an SDF property: blank/absent, text that is no
\* number, or a number (in tenths)
NaN == [k |-> "nan"]
Str(s) == [k |-> "str", s |-> s]
Num(n) == [k |-> "num", n |-> n]

Datasets == {"d1", "d2"}

CidCells == {NaN, Str("x"), Num(10), Num(20), Num(17)}
WeightCells == {NaN, Str("abc"), Num(100)}

\* the rows a manifest file may hold
ManifestRows == [PubChem_CID : CidCells, molecular_weight : WeightCells]

EnergyCells == {NaN, Num(50)}

\* the records a structural file may hold; parses = FALSE is a block the
\* structure library rejects (MolFromMolBlock returns None)
SdfRecords == [parses : BOOLEAN, PUBCHEM_COMPOUND_CID : CidCells,
               PUBCHEM_MMFF94_ENERGY : EnergyCells, molblock : {"mb"}]

-----------------------------------------------------------------------------
(* csv_ingest.py *)

\* pd.isna(cell)
isna(c) == c.k = "nan"

\* float(cell): raises ValueError on text that is no number
FloatRaises(c) == c.k = "str"
float(c) == c.n

\* int(float(cid)): the except clause catches the failure
IntFloatFails(c) == c.k # "num"
IntFloat(c) == c.n \div 10

\* one pass of the loop body of build_molecule_rows: "skip", "raise" or "row"
BuildOutcome(r) ==
    IF isna(r.PubChem_CID) THEN "skip"
    ELSE IF IntFloatFails(r.PubChem_CID) THEN "skip"
    ELSE IF ~isna(r.molecular_weight) /\ FloatRaises(r.molecular_weight) THEN "raise"
    ELSE "row"

BuildRow(r, dataset_id, run_id) ==
    [dataset_id |-> dataset_id,
     cid |-> IntFloat(r.PubChem_CID),
     molecular_weight |-> IF isna(r.molecular_weight) THEN Null
                          ELSE Val(float(r.molecular_weight)),
     ingest_run_id |-> run_id]

-----------------------------------------------------------------------------
(* db.py: the statements *)

SameKey(a, b) == a.dataset_id = b.dataset_id /\ a.cid = b.cid

\* (mutant) ON CONFLICT (dataset_id, cid) DO NOTHING
UpsertMoleculeKeepOld(tbl, r) ==
    IF \E m \in tbl : SameKey(m, r) THEN tbl ELSE tbl \cup {r}

\* INSERT INTO discovered_molecule ... ON CONFLICT (dataset_id, cid) DO UPDATE SET
\* every column = EXCLUDED.column
UpsertMoleculeStmt(tbl, r) ==
    {m \in tbl : ~SameKey(m, r)} \cup {r}

\* INSERT INTO dataset ... ON CONFLICT (dataset_id) DO UPDATE SET name, ingest_run_id
UpsertDatasetStmt(tbl, dataset_id, name, run_id) ==
    {d \in tbl : d.dataset_id # dataset_id}
        \cup {[dataset_id |-> dataset_id, name |-> name, ingest_run_id |-> run_id]}

\* INSERT INTO ingest_run ... 'running' ON CONFLICT (run_id) DO UPDATE SET status = 'running'
InsertRunStmt(tbl, run_id, dataset_id) ==
    IF \E x \in tbl : x.run_id = run_id
    THEN {IF x.run_id = run_id THEN [x EXCEPT !.status = "running"] ELSE x : x \in tbl}
    ELSE tbl \cup {[run_id |-> run_id, dataset_id |-> dataset_id, status |-> "running",
                    finished |-> FALSE, stats |-> Null]}

\* UPDATE ingest_run SET finished_at = now(), status = 'completed', stats = $2
FinishRunStmt(tbl, run_id, stats) ==
    {IF x.run_id = run_id
     THEN [x EXCEPT !.status = "completed", !.finished = TRUE, !.stats = Val(stats)]
     ELSE x : x \in tbl}

\* INSERT INTO molecule_geometry ... ON CONFLICT (dataset_id, cid) DO UPDATE SET ...
UpsertHotStmt(tbl, dataset_id, run_id, cid, hot) ==
    LET r == [dataset_id |-> dataset_id, cid |-> cid,
              mmff94_energy |-> hot.mmff94_energy, ingest_run_id |-> run_id]
    IN  {g \in tbl : ~SameKey(g, r)} \cup {r}

\* INSERT INTO molecule_geometry_cold ... ON CONFLICT (dataset_id, cid) DO UPDATE SET ...
UpsertColdStmt(tbl, dataset_id, cid, molblock) ==
    LET r == [dataset_id |-> dataset_id, cid |-> cid, molblock |-> molblock]
    IN  {c \in tbl : ~SameKey(c, r)} \cup {r}

\* (mutant) SELECT cid FROM discovered_molecule, the WHERE clause forgotten
ValidCidsAnyDataset(dataset_id) ==
    {m.cid : m \in discovered_molecule}

\* SELECT cid FROM discovered_molecule WHERE dataset_id = $1
ValidCids(dataset_id) ==
    {m.cid : m \in {x \in discovered_molecule : x.dataset_id = dataset_id}}

-----------------------------------------------------------------------------
(* sdf_ingest.py *)

\* iter_sdf_records, one record: TRUE when the record is yielded
Yields(rec) ==
    /\ rec.parses
    /\ ~isna(rec.PUBCHEM_COMPOUND_CID)
    /\ ~IntFloatFails(rec.PUBCHEM_COMPOUND_CID)

\* the hot dict of a yielded record
HotOf(rec) ==
    [mmff94_energy |-> IF isna(rec.PUBCHEM_MMFF94_ENERGY) THEN Null
                       ELSE IF FloatRaises(rec.PUBCHEM_MMFF94_ENERGY) THEN Null
                       ELSE Val(float(rec.PUBCHEM_MMFF94_ENERGY))]

-----------------------------------------------------------------------------
(* cli.py: the ingest commands, one statement per step *)

NoCur == [cid |-> 0, hot |-> [mmff94_energy |-> Null], molblock |-> ""]

IdleOp == [kind |-> "none", pc |-> "exit", exit |-> "none", dataset_id |-> "d1",
           run_id |-> 0, rows |-> <<>>, idx |-> 0, total_rows |-> 0,
           valid_cids |-> {}, paths_left |-> 0, paths_done |-> 0, nrec |-> 0,
           cur |-> NoCur, count |-> 0, skipped |-> 0,
           \* what the command met, kept for the properties below: the state of
           \* its manifest path, the rows read with a usable identifier, the
           \* records yielded, those of them whose (dataset_id, cid) had no
           \* discovered_molecule row, and the geometry statements executed
           file |-> "none", valid_seen |-> 0, yielded |-> 0, unknown_seen |-> 0,
           geom_writes |-> 0]

Snapshot == [dataset |-> dataset, ingest_run |-> ingest_run,
             discovered_molecule |-> discovered_molecule,
             molecule_geometry |-> molecule_geometry,
             molecule_geometry_cold |-> molecule_geometry_cold]

CanStart == op.pc = "exit" /\ nops < MaxOps

\* the statements that go to the database
DbPcs == {"csv_connect", "csv_dataset", "csv_run", "csv_upsert", "csv_finish",
          "sdf_fetch", "sdf_hot", "sdf_cold"}

Exit(o, how) == [o EXCEPT !.pc = "exit", !.exit = how]

\* ingest_csv, line 34: validate_and_load_csv raises FileNotFoundError
CsvFileMissing(ds) ==
    /\ CanStart
    /\ nops' = nops + 1
    /\ atStart' = Snapshot
    /\ op' = [IdleOp EXCEPT !.kind = "csv", !.dataset_id = ds, !.file = "missing",
                            !.exit = "FileNotFoundError"]
    /\ UNCHANGED <<storeVars, queryVars, nread>>

\* (mutant) the columns are checked only after ensure_dataset_and_run's first
\* statement
CsvMissingColumnsLate(ds) ==
    /\ CanStart
    /\ nops' = nops + 1
    /\ atStart' = Snapshot
    /\ dataset' = UpsertDatasetStmt(dataset, ds, ds, nops + 1)
    /\ op' = [IdleOp EXCEPT !.kind = "csv", !.dataset_id = ds,
                            !.file = "lacks_columns", !.exit = "sys.exit(1)"]
    /\ UNCHANGED <<ingest_run, discovered_molecule, molecule_geometry,
                   molecule_geometry_cold, queryVars, nread>>

\* ingest_csv, lines 35-37: a required column is missing, sys.exit(1)
CsvMissingColumns(ds) ==
    /\ CanStart
    /\ nops' = nops + 1
    /\ atStart' = Snapshot
    /\ op' = [IdleOp EXCEPT !.kind = "csv", !.dataset_id = ds,
                            !.file = "lacks_columns", !.exit = "sys.exit(1)"]
    /\ UNCHANGED <<storeVars, queryVars, nread>>

\* ingest_csv, lines 34-39: the file loads with its required columns; run_id = uuid4
CsvStart(ds) ==
    /\ CanStart
    /\ nops' = nops + 1
    /\ atStart' = Snapshot
    /\ op' = [IdleOp EXCEPT !.kind = "csv", !.dataset_id = ds, !.pc = "csv_build",
                            !.file = "loaded", !.exit = "none", !.run_id = nops + 1]
    /\ UNCHANGED <<storeVars, queryVars, nread>>

\* build_molecule_rows: one row of the data frame
CsvBuildRow(r) ==
    /\ op.pc = "csv_build"
    /\ nread.rows < MaxRows
    /\ nread' = [nread EXCEPT !.rows = @ + 1]
    /\ LET outcome == BuildOutcome(r)
           o == [op EXCEPT !.total_rows = @ + 1,
                           !.valid_seen = IF ~IntFloatFails(r.PubChem_CID)
                                          THEN @ + 1 ELSE @]
       IN  op' = IF outcome = "skip" THEN o
                 ELSE IF outcome = "raise" THEN Exit(o, "ValueError")
                 ELSE [o EXCEPT !.rows = Append(@, BuildRow(r, op.dataset_id, op.run_id))]
    /\ UNCHANGED <<storeVars, queryVars, atStart, nops>>

\* end of the data frame; coverage_stats; then asyncpg.connect
CsvBuildDone ==
    /\ op.pc = "csv_build"
    /\ op' = [op EXCEPT !.pc = "csv_connect"]
    /\ UNCHANGED <<storeVars, queryVars, atStart, nops, nread>>

\* asyncpg.connect and run_migration (the schema exists already)
CsvConnect ==
    /\ op.pc = "csv_connect"
    /\ op' = [op EXCEPT !.pc = "csv_dataset"]
    /\ UNCHANGED <<storeVars, queryVars, atStart, nops, nread>>

\* ensure_dataset_and_run, first statement
CsvEnsureDataset ==
    /\ op.pc = "csv_dataset"
    /\ dataset' = UpsertDatasetStmt(dataset, op.dataset_id, op.dataset_id, op.run_id)
    /\ op' = [op EXCEPT !.pc = "csv_run"]
    /\ UNCHANGED <<ingest_run, discovered_molecule, molecule_geometry,
                   molecule_geometry_cold, queryVars, atStart, nops, nread>>

\* ensure_dataset_and_run, second statement
CsvEnsureRun ==
    /\ op.pc = "csv_run"
    /\ ingest_run' = InsertRunStmt(ingest_run, op.run_id, op.dataset_id)
    /\ op' = [op EXCEPT !.pc = "csv_upsert", !.idx = 1]
    /\ UNCHANGED <<dataset, discovered_molecule, molecule_geometry,
                   molecule_geometry_cold, queryVars, atStart, nops, nread>>

\* upsert_molecules: one pass of its loop
CsvUpsert ==
    /\ op.pc = "csv_upsert"
    /\ op.idx <= Len(op.rows)
    /\ discovered_molecule' = UpsertMoleculeStmt(discovered_molecule, op.rows[op.idx])
    /\ op' = [op EXCEPT !.idx = @ + 1]
    /\ UNCHANGED <<dataset, ingest_run, molecule_geometry, molecule_geometry_cold,
                   queryVars, atStart, nops, nread>>

\* (variant) upsert_molecules returns before its loop has ended
CsvUpsertDoneEarly ==
    /\ op.pc = "csv_upsert"
    /\ op' = [op EXCEPT !.pc = "csv_finish"]
    /\ UNCHANGED <<storeVars, queryVars, atStart, nops, nread>>

\* upsert_molecules returns
CsvUpsertDone ==
    /\ op.pc = "csv_upsert"
    /\ op.idx > Len(op.rows)
    /\ op' = [op EXCEPT !.pc = "csv_finish"]
    /\ UNCHANGED <<storeVars, queryVars, atStart, nops, nread>>

\* the stats of line 40-41
Stats(o) == [total_rows |-> o.total_rows, molecules_upserted |-> Len(o.rows)]

\* finish_run, then the command returns
CsvFinish ==
    /\ op.pc = "csv_finish"
    /\ ingest_run' = FinishRunStmt(ingest_run, op.run_id, Stats(op))
    /\ op' = Exit(op, "ok")
    /\ UNCHANGED <<dataset, discovered_molecule, molecule_geometry,
                   molecule_geometry_cold, queryVars, atStart, nops, nread>>

\* ingest_sdf, line 58: asyncpg.connect; the paths are the command's arguments
SdfStart(ds, npaths) ==
    /\ CanStart
    /\ nops' = nops + 1
    /\ atStart' = Snapshot
    /\ op' = [IdleOp EXCEPT !.kind = "sdf", !.dataset_id = ds, !.pc = "sdf_fetch",
                            !.exit = "none", !.paths_left = npaths]
    /\ UNCHANGED <<storeVars, queryVars, nread>>

\* ingest_sdf, lines 61-70: valid_cids, run_id = uuid4, count = skipped = 0
SdfFetchValid ==
    /\ op.pc = "sdf_fetch"
    /\ op' = [op EXCEPT !.pc = "sdf_open", !.valid_cids = ValidCids(op.dataset_id),
                        !.run_id = nops]
    /\ UNCHANGED <<storeVars, queryVars, atStart, nops, nread>>

\* for path in sdf_paths: iter_sdf_records(path) starts; it looks for the file now
SdfOpen(exists) ==
    /\ op.pc = "sdf_open"
    /\ op.paths_left > 0
    /\ op' = IF exists THEN [op EXCEPT !.pc = "sdf_read", !.nrec = 0]
             ELSE Exit(op, "FileNotFoundError")
    /\ UNCHANGED <<storeVars, queryVars, atStart, nops, nread>>

IsUnknown(o, cid) == cid \notin o.valid_cids

\* one record of the file: not yielded, or skipped by line 73, or handed on
SdfRecord(rec) ==
    /\ op.pc = "sdf_read"
    /\ nread.recs < MaxRecs
    /\ nread' = [nread EXCEPT !.recs = @ + 1]
    /\ LET o == [op EXCEPT !.nrec = @ + 1]
           cid == IntFloat(rec.PUBCHEM_COMPOUND_CID)
       IN  op' = IF ~Yields(rec) THEN o
                 ELSE LET known == \E m \in discovered_molecule :
                                       m.dataset_id = op.dataset_id /\ m.cid = cid
                          o2 == [o EXCEPT !.yielded = @ + 1,
                                          !.unknown_seen = IF known THEN @ ELSE @ + 1]
                      IN  IF IsUnknown(op, cid)
                          THEN [o2 EXCEPT !.skipped = @ + 1]
                          ELSE [o2 EXCEPT !.pc = "sdf_hot",
                                          !.cur = [cid |-> cid, hot |-> HotOf(rec),
                                                   molblock |-> rec.molblock]]
    /\ UNCHANGED <<storeVars, queryVars, atStart, nops>>

\* the file ends; next path
SdfEndOfFile ==
    /\ op.pc = "sdf_read"
    /\ op' = [op EXCEPT !.pc = "sdf_open", !.paths_left = @ - 1, !.paths_done = @ + 1]
    /\ UNCHANGED <<storeVars, queryVars, atStart, nops, nread>>

\* upsert_geometry, first statement
SdfUpsertHot ==
    /\ op.pc = "sdf_hot"
    /\ molecule_geometry' = UpsertHotStmt(molecule_geometry, op.dataset_id, op.run_id,
                                          op.cur.cid, op.cur.hot)
    /\ op' = [op EXCEPT !.pc = "sdf_cold", !.geom_writes = @ + 1]
    /\ UNCHANGED <<dataset, ingest_run, discovered_molecule, molecule_geometry_cold,
                   queryVars, atStart, nops, nread>>

\* upsert_geometry, second statement; count += 1
SdfUpsertCold ==
    /\ op.pc = "sdf_cold"
    /\ molecule_geometry_cold' = UpsertColdStmt(molecule_geometry_cold, op.dataset_id,
                                                op.cur.cid, op.cur.molblock)
    /\ op' = [op EXCEPT !.pc = "sdf_read", !.count = @ + 1, !.cur = NoCur,
                        !.geom_writes = @ + 1]
    /\ UNCHANGED <<dataset, ingest_run, discovered_molecule, molecule_geometry,
                   queryVars, atStart, nops, nread>>

\* all paths read: the command prints its counts and returns
SdfDone ==
    /\ op.pc = "sdf_open"
    /\ op.paths_left = 0
    /\ op' = Exit(op, "ok")
    /\ UNCHANGED <<storeVars, queryVars, atStart, nops, nread>>

\* (variant) the finally clause also finishes the run
DbFailureFinishesRun ==
    /\ op.pc \in DbPcs
    /\ op' = Exit(op, "PostgresError")
    /\ ingest_run' = FinishRunStmt(ingest_run, op.run_id, Stats(op))
    /\ UNCHANGED <<dataset, discovered_molecule, molecule_geometry,
                   molecule_geometry_cold, queryVars, atStart, nops, nread>>

\* a statement is rejected or the database is unreachable: asyncpg raises, the
\* finally clause closes the connection, the exception leaves the command
DbFailure ==
    /\ op.pc \in DbPcs
    /\ op' = Exit(op, "PostgresError")
    /\ UNCHANGED <<storeVars, queryVars, atStart, nops, nread>>

-----------------------------------------------------------------------------
(* app/main.py: the request *)

\* bounds of the requests: entries of ranges, items of sort
MaxRanges == 2
MaxSort == 2

\* sequences over S of length at most n, and those without a repeated field
RECURSIVE SeqsUpTo(_, _)
SeqsUpTo(S, n) ==
    IF n = 0 THEN {<<>>}
    ELSE LET shorter == SeqsUpTo(S, n - 1)
         IN  shorter \cup {Append(x, e) : x \in {y \in shorter : Len(y) = n - 1}, e \in S}

DistinctFields(x) == \A i, j \in 1..Len(x) : i # j => x[i].field # x[j].field

\* the allow-list of _build_where and its two halves
ManifestRangeFields == {"molecular_weight", "TPSA", "XLogP3", "HBA", "HBD", "rotatable_bonds"}
GeometryFields == {"mmff94_energy", "shape_volume"}
RangeFields == ManifestRangeFields \cup GeometryFields

\* MoleculesQueryBody.ranges: dict[str, list[float]], a dict keeps its keys
\* distinct and in insertion order
RangeEntries == [field : {"molecular_weight", "shape_volume", "bogus"},
                 pair : {<<>>, <<100>>, <<100, 200>>}]
RangesTried == {x \in SeqsUpTo(RangeEntries, MaxRanges) : DistinctFields(x)}

\* MoleculesQueryBody.sort: list[SortItem]
SortItems == {[field |-> "molecular_weight", dir |-> "asc"],
              [field |-> "mmff94_energy", dir |-> "desc"],
              [field |-> "bogus", dir |-> "asc"]}
SortsTried == SeqsUpTo(SortItems, MaxSort)

\* Page(): limit 100, offset 0
DefaultLimit == 100
DefaultOffset == 0
DefaultPage == [limit |-> DefaultLimit, offset |-> DefaultOffset]

Opt(S) == {Null} \cup {Val(x) : x \in S}

Requests == [seed_name : Opt({"", "fam"}),
             methods : Opt({<<>>, <<"sim2d">>}),
             ranges : Opt(RangesTried),
             sort : Opt(SortsTried),
             page : Opt({[limit |-> 2, offset |-> 4]})]

\* Python truthiness of an optional str, and of an optional list or dict
TruthyStr(o) == o.k = "val" /\ o.v # ""
\* (variant) `is not None` in place of truthiness
TruthySeqNotNone(o) == o.k = "val"
TruthySeq(o) == o.k = "val" /\ Len(o.v) > 0

-----------------------------------------------------------------------------
(* app/main.py: _build_where *)

\* a bound parameter: text, text[], float or int
ArgS(x) == [t |-> "text", s |-> x, l |-> <<>>, n |-> 0]
ArgL(x) == [t |-> "text[]", s |-> "", l |-> x, n |-> 0]
ArgF(x) == [t |-> "float", s |-> "", l |-> <<>>, n |-> x]
ArgI(x) == [t |-> "int", s |-> "", l |-> <<>>, n |-> x]

\* one conjunct of the WHERE text: the column it names (table alias and
\* field), its shape, and its placeholders $k in the order they appear
Cond(kind, tbl, field, ph) == [kind |-> kind, tbl |-> tbl, field |-> field, ph |-> ph]

\* (mutant) the allow-list test forgotten
AllowedAnyField(field, pair) == Len(pair) >= 2

\* line 152: len(pair) >= 2 and field in (the allow-list)
Allowed(field, pair) == Len(pair) >= 2 /\ field \in RangeFields

\* lines 157-160: the condition of an allowed entry
RangeCond(field, idx) ==
    IF field \in GeometryFields
    THEN Cond("range", "g", field, <<idx, idx + 1>>)
    ELSE Cond("range", "m", field, <<idx, idx + 1>>)

\* lines 150-162: the loop over body.ranges.items()
RECURSIVE BuildRanges(_, _, _)
BuildRanges(entries, i, acc) ==
    IF i > Len(entries) THEN acc
    ELSE LET e == entries[i]
         IN  IF Allowed(e.field, e.pair)
             THEN BuildRanges(entries, i + 1,
                      [conditions |-> Append(acc.conditions, RangeCond(e.field, acc.idx)),
                       args |-> acc.args \o <<ArgF(e.pair[1]), ArgF(e.pair[2])>>,
                       idx |-> acc.idx + 2])
             ELSE BuildRanges(entries, i + 1, acc)

\* lines 138-163
BuildWhere(dataset_id, b) ==
    LET a0 == [conditions |-> <<Cond("dataset", "m", "dataset_id", <<1>>)>>,
               args |-> <<ArgS(dataset_id)>>, idx |-> 2]
        a1 == IF TruthyStr(b.seed_name)
              THEN [conditions |-> Append(a0.conditions,
                                          Cond("seed", "m", "seed_name", <<a0.idx>>)),
                    args |-> Append(a0.args, ArgS(b.seed_name.v)), idx |-> a0.idx + 1]
              ELSE a0
        a2 == IF TruthySeq(b.methods)
              THEN [conditions |-> Append(a1.conditions,
                                          Cond("methods", "m", "discovery_method", <<a1.idx>>)),
                    args |-> Append(a1.args, ArgL(b.methods.v)), idx |-> a1.idx + 1]
              ELSE a1
        a3 == IF TruthySeq(b.ranges) THEN BuildRanges(b.ranges.v, 1, a2) ELSE a2
    IN  [where |-> a3.conditions, args |-> a3.args]

-----------------------------------------------------------------------------
(* app/main.py: query_molecules *)

\* (mutant) only the range filters decide the join
UseGeomRangesOnly(b) ==
    TruthySeq(b.ranges) /\ \E i \in 1..Len(b.ranges.v) : b.ranges.v[i].field \in GeometryFields

\* lines 174-177
UseGeom(b) ==
    \/ TruthySeq(b.ranges) /\ \E i \in 1..Len(b.ranges.v) : b.ranges.v[i].field \in GeometryFields
    \/ TruthySeq(b.sort) /\ \E i \in 1..Len(b.sort.v) : b.sort.v[i].field \in GeometryFields

\* lines 178-180
FromClause(use_geom) == [table |-> "discovered_molecule m", join_geometry |-> use_geom]

\* lines 181-187: the ORDER BY keys; the field is the caller's text
OrderBy(b) ==
    IF TruthySeq(b.sort)
    THEN [i \in 1..Len(b.sort.v) |->
             [tbl |-> IF b.sort.v[i].field \in GeometryFields THEN "g" ELSE "m",
              field |-> b.sort.v[i].field,
              dir |-> IF b.sort.v[i].dir = "asc" THEN "ASC" ELSE "DESC"]]
    ELSE <<[tbl |-> "m", field |-> "cid", dir |-> "ASC"]>>

\* line 172
PageOf(b) == IF b.page.k = "val" THEN b.page.v ELSE DefaultPage

\* (mutant) the count query is given the whole argument list
CountArgsAll(args, n) == args

\* line 203: *args[:n]
CountArgs(args, n) == SubSeq(args, 1, n)

\* lines 172-204: the two statements the handler sends
QuerySql(dataset_id, b) ==
    LET w == BuildWhere(dataset_id, b)
        from_clause == FromClause(UseGeom(b))
        n == Len(w.args)
        args == w.args \o <<ArgI(PageOf(b).limit), ArgI(PageOf(b).offset)>>
    IN  [page |-> [from |-> from_clause, where |-> w.where, order |-> OrderBy(b),
                   limit_ph |-> n + 1, offset_ph |-> n + 2, args |-> args],
         count |-> [from |-> from_clause, where |-> w.where, order |-> <<>>,
                    limit_ph |-> 0, offset_ph |-> 0, args |-> CountArgs(args, n)]]

-----------------------------------------------------------------------------
(* The ingestion specification *)

\* no request is being served while the commands run
EmptyBody == [seed_name |-> Null, methods |-> Null, ranges |-> Null, sort |-> Null,
              page |-> Null]
EmptyQ == [pc |-> "none"]
\* no cell is being converted
NoCell == [pc |-> "none"]
\* the API is not running
NoWeb == [pc |-> "down"]

InitStore ==
    /\ dataset = {}
    /\ ingest_run = {}
    /\ discovered_molecule = {}
    /\ molecule_geometry = {}
    /\ molecule_geometry_cold = {}

Init ==
    /\ InitStore
    /\ op = IdleOp
    /\ atStart = Snapshot
    /\ nops = 0
    /\ nread = [rows |-> 0, recs |-> 0]
    /\ web = NoWeb
    /\ cell = NoCell
    /\ body = EmptyBody
    /\ q = EmptyQ

\* the commands of cli.py that load manifests
CsvCommand ==
    \/ \E ds \in Datasets : CsvFileMissing(ds)
    \/ \E ds \in Datasets : CsvMissingColumns(ds)
    \/ \E ds \in Datasets : CsvStart(ds)
    \/ CsvBuildDone
    \/ CsvConnect
    \/ CsvEnsureDataset
    \/ CsvEnsureRun
    \/ CsvUpsert
    \/ CsvUpsertDone
    \/ CsvFinish

\* the command of cli.py that loads structural files
SdfCommand ==
    \/ \E ds \in Datasets, n \in 1..MaxPaths : SdfStart(ds, n)
    \/ SdfFetchValid
    \/ \E e \in BOOLEAN : SdfOpen(e)
    \/ \E rec \in SdfRecords : SdfRecord(rec)
    \/ SdfEndOfFile
    \/ SdfUpsertHot
    \/ SdfUpsertCold
    \/ SdfDone

\* Manifest ingestion alone, over every kind of manifest row
NextManifest ==
    \/ CsvCommand
    \/ \E r \in ManifestRows : CsvBuildRow(r)
    \/ DbFailure

SpecManifest == Init /\ [][NextManifest]_vars

\* manifest rows whose cells all parse
PlainRows == {r \in ManifestRows : BuildOutcome(r) = "row" /\ ~isna(r.molecular_weight)}

\* Manifest and geometry ingestion, over every kind of structural record
NextGeometry ==
    \/ CsvCommand
    \/ \E r \in PlainRows : CsvBuildRow(r)
    \/ SdfCommand
    \/ DbFailure

SpecGeometry == Init /\ [][NextGeometry]_vars

-----------------------------------------------------------------------------
(* The database's answer to the two statements *)

\* bounds of the paged store: molecules in the dataset, largest page size
MaxMols == 3
MaxLimit == 2

\* the columns of the two tables (db.py lines 75-77 and 145-147)
MoleculeColumns == {"dataset_id", "cid", "smiles", "inchi_key", "molecular_formula",
                    "molecular_weight", "exact_mass", "xlogp3", "tpsa", "hba", "hbd",
                    "rotatable_bonds", "discovery_method", "discovery_seed", "seed_name",
                    "seed_smiles", "name", "ingest_run_id", "created_at"}
GeometryColumns == {"dataset_id", "cid", "conformer_id", "mmff94_energy", "conformer_rmsd",
                    "effective_rotor_count", "shape_volume", "shape_selfoverlap",
                    "heavy_atom_count", "component_count", "ingest_run_id", "created_at"}

\* an unquoted identifier is folded to lower case
Folded(field) ==
    CASE field = "TPSA" -> "tpsa"
      [] field = "XLogP3" -> "xlogp3"
      [] field = "HBA" -> "hba"
      [] field = "HBD" -> "hbd"
      [] OTHER -> field

ColumnExists(tbl, field) ==
    IF tbl = "g" THEN Folded(field) \in GeometryColumns
    ELSE Folded(field) \in MoleculeColumns

\* the statement is rejected: a column that does not exist, or the alias g
\* without the join
SqlFails(stmt) ==
    \/ \E i \in 1..Len(stmt.where) :
           \/ ~ColumnExists(stmt.where[i].tbl, stmt.where[i].field)
           \/ stmt.where[i].tbl = "g" /\ ~stmt.from.join_geometry
    \/ \E i \in 1..Len(stmt.order) :
           \/ ~ColumnExists(stmt.order[i].tbl, stmt.order[i].field)
           \/ stmt.order[i].tbl = "g" /\ ~stmt.from.join_geometry

\* FROM discovered_molecule m [LEFT JOIN molecule_geometry g ON the key]
NoGeometry == {}
Joined(from_clause) ==
    {[m |-> m,
      g |-> IF from_clause.join_geometry
            THEN {x \in molecule_geometry : SameKey(x, m)}
            ELSE NoGeometry] : m \in discovered_molecule}

\* the value of a column in a joined row; the columns this model does not
\* carry are NULL
Col(j, tbl, field) ==
    IF tbl = "m"
    THEN CASE field = "cid" -> Val(j.m.cid)
           [] field = "molecular_weight" -> j.m.molecular_weight
           [] OTHER -> Null
    ELSE IF j.g = {} THEN Null
         ELSE LET g == CHOOSE x \in j.g : TRUE
              IN  CASE field = "cid" -> Val(g.cid)
                    [] field = "mmff94_energy" -> g.mmff94_energy
                    [] OTHER -> Null

\* one conjunct of WHERE on a joined row, $k read from args
Holds(c, j, args) ==
    CASE c.kind = "dataset" -> j.m.dataset_id = args[c.ph[1]].s
      [] c.kind = "seed" -> FALSE
      [] c.kind = "methods" -> FALSE
      [] c.kind = "range" ->
            LET v == Col(j, c.tbl, c.field)
            IN  /\ c.tbl = "g" => Col(j, "g", "cid") = Val(j.m.cid)
                /\ v.k = "val"
                /\ v.v >= args[c.ph[1]].n
                /\ v.v <= args[c.ph[2]].n

Matching(stmt) ==
    {j \in Joined(stmt.from) : \A i \in 1..Len(stmt.where) : Holds(stmt.where[i], j, stmt.args)}

\* ASC puts NULL last, DESC puts it first
Less(x, y) == x.k = "val" /\ (y.k = "null" \/ x.v < y.v)

KeyBefore(a, b, o) ==
    IF o.dir = "ASC" THEN Less(Col(a, o.tbl, o.field), Col(b, o.tbl, o.field))
    ELSE Less(Col(b, o.tbl, o.field), Col(a, o.tbl, o.field))

\* ORDER BY decides that a comes before b
StrictlyBefore(a, b, order) ==
    \E i \in 1..Len(order) :
        /\ \A k \in 1..(i - 1) :
               Col(a, order[k].tbl, order[k].field) = Col(b, order[k].tbl, order[k].field)
        /\ KeyBefore(a, b, order[i])

\* the orders in which the database may return the rows of S: rows that
\* ORDER BY does not tell apart come in any order, and not the same one in
\* every execution
Orderings(S, order) ==
    LET n == Cardinality(S)
    IN  {p \in [1..n -> S] :
            /\ \A i, k \in 1..n : i # k => p[i] # p[k]
            /\ \A i, k \in 1..n : i < k => ~StrictlyBefore(p[k], p[i], order)}

Min(a, b) == IF a <= b THEN a ELSE b

\* LIMIT $n+1 OFFSET $n+2
Slice(p, stmt) ==
    LET limit == stmt.args[stmt.limit_ph].n
        offset == stmt.args[stmt.offset_ph].n
    IN  SubSeq(p, offset + 1, Min(offset + limit, Len(p)))

\* the request is for this dataset
TheDataset == "d1"

\* no statement built yet
NoStmt == [from |-> FromClause(FALSE), where |-> <<>>, order |-> <<>>,
           limit_ph |-> 0, offset_ph |-> 0, args |-> <<>>]
NoSql == [page |-> NoStmt, count |-> NoStmt]

NewQ == [pc |-> "request", sql |-> NoSql, molecules |-> <<>>,
         total |-> 0, seen |-> <<>>, calls |-> 0]

\* query_molecules: build the statements, fetch the page, fetch the count
QueryMolecules ==
    /\ q.pc = "request"
    /\ LET sql == QuerySql(TheDataset, body)
       IN  IF SqlFails(sql.page) \/ SqlFails(sql.count)
           THEN q' = [q EXCEPT !.pc = "error", !.sql = sql, !.molecules = <<>>]
           ELSE \E p \in Orderings(Matching(sql.page), sql.page.order) :
                   LET rows == Slice(p, sql.page)
                       cids == [i \in 1..Len(rows) |-> rows[i].m.cid]
                   IN  q' = [q EXCEPT !.pc = "answered", !.sql = sql,
                                      !.molecules = cids,
                                      !.total = Cardinality(Matching(sql.count)),
                                      !.seen = @ \o cids,
                                      !.calls = @ + 1]
    /\ UNCHANGED <<storeVars, op, atStart, nops, nread, body, cell, web>>

\* the client asks for the next page: same filters and sort, offset + limit
NextPage ==
    /\ q.pc = "answered"
    /\ PageOf(body).offset + PageOf(body).limit < q.total
    /\ body' = [body EXCEPT !.page = Val([limit |-> PageOf(body).limit,
                                          offset |-> PageOf(body).offset
                                                        + PageOf(body).limit])]
    /\ q' = [q EXCEPT !.pc = "request"]
    /\ UNCHANGED <<storeVars, op, atStart, nops, nread, cell, web>>

\* the client has every page
LastPage ==
    /\ q.pc = "answered"
    /\ PageOf(body).offset + PageOf(body).limit >= q.total
    /\ q' = [q EXCEPT !.pc = "done"]
    /\ UNCHANGED <<storeVars, op, atStart, nops, nread, body, cell, web>>

\* One request against an empty store, over every request
InitQuery ==
    /\ InitStore
    /\ op = IdleOp
    /\ atStart = Snapshot
    /\ nops = 0
    /\ nread = [rows |-> 0, recs |-> 0]
    /\ web = NoWeb
    /\ cell = NoCell
    /\ body \in Requests
    /\ q = NewQ

SpecQuery == InitQuery /\ [][QueryMolecules]_vars

\* the stores paged through: molecules 1..MaxMols of the dataset and one of
\* another dataset, the first few with geometry, as ingestion leaves them
PageWeights == {Null, Val(100), Val(200)}

MoleculeRow(ds, cid, w) ==
    [dataset_id |-> ds, cid |-> cid, molecular_weight |-> w, ingest_run_id |-> 1]
HotRow(ds, cid, e) ==
    [dataset_id |-> ds, cid |-> cid, mmff94_energy |-> e, ingest_run_id |-> 2]
ColdRow(ds, cid) == [dataset_id |-> ds, cid |-> cid, molblock |-> "mb"]

\* requests paged: ties and NULLs under the sort key, a key made unique by
\* the caller, the default order, a geometry sort and range, an unknown field
PageSorts == {Null,
              Val(<<[field |-> "molecular_weight", dir |-> "asc"]>>),
              Val(<<[field |-> "molecular_weight", dir |-> "desc"]>>),
              Val(<<[field |-> "mmff94_energy", dir |-> "asc"]>>),
              Val(<<[field |-> "molecular_weight", dir |-> "asc"],
                    [field |-> "cid", dir |-> "asc"]>>),
              Val(<<[field |-> "bogus", dir |-> "asc"]>>)}
PageRanges == {Null,
               Val(<<[field |-> "molecular_weight", pair |-> <<100, 200>>]>>),
               Val(<<[field |-> "mmff94_energy", pair |-> <<0, 100>>]>>)}

InitPage ==
    /\ \E w \in [1..MaxMols -> PageWeights], ng \in 0..MaxMols :
           /\ discovered_molecule = {MoleculeRow(TheDataset, c, w[c]) : c \in 1..MaxMols}
                                        \cup {MoleculeRow("d2", 1, Val(100))}
           /\ molecule_geometry = {HotRow(TheDataset, c, Val(50)) : c \in 1..ng}
           /\ molecule_geometry_cold = {ColdRow(TheDataset, c) : c \in 1..ng}
    /\ dataset = {[dataset_id |-> d, name |-> d, ingest_run_id |-> 1] : d \in Datasets}
    /\ ingest_run = {[run_id |-> 1, dataset_id |-> TheDataset, status |-> "completed",
                      finished |-> TRUE,
                      stats |-> Val([total_rows |-> MaxMols,
                                     molecules_upserted |-> MaxMols])]}
    /\ op = IdleOp
    /\ atStart = Snapshot
    /\ nops = 0
    /\ nread = [rows |-> 0, recs |-> 0]
    /\ web = NoWeb
    /\ cell = NoCell
    /\ \E L \in 1..MaxLimit, srt \in PageSorts, rng \in PageRanges :
           body = [seed_name |-> Null, methods |-> Null, ranges |-> rng, sort |-> srt,
                   page |-> Val([limit |-> L, offset |-> 0])]
    /\ q = NewQ

NextPaging ==
    \/ QueryMolecules
    \/ NextPage
    \/ LastPage

SpecPage == InitPage /\ [][NextPaging]_vars

-----------------------------------------------------------------------------
(* app/main.py: aggregates_molecules *)

\* float("nan") is a float: float(val) of sdf_ingest and float(r[...]) of
\* build_molecule_rows store it. PostgreSQL orders NaN equal to itself and
\* above every other value, so in the store it is this value, larger than
\* any other the model holds.
NaNValue == 9999

\* Python's <= on floats: false as soon as one side is NaN
PyLe(a, b) == a # NaNValue /\ b # NaNValue /\ a <= b

\* lines 241-250: the fields list, name and column
AggregateFields ==
    <<[name |-> "molecular_weight", tbl |-> "m", col |-> "molecular_weight"],
      [name |-> "TPSA", tbl |-> "m", col |-> "tpsa"],
      [name |-> "XLogP3", tbl |-> "m", col |-> "xlogp3"],
      [name |-> "HBA", tbl |-> "m", col |-> "hba"],
      [name |-> "HBD", tbl |-> "m", col |-> "hbd"],
      [name |-> "rotatable_bonds", tbl |-> "m", col |-> "rotatable_bonds"],
      [name |-> "mmff94_energy", tbl |-> "g", col |-> "mmff94_energy"],
      [name |-> "shape_volume", tbl |-> "g", col |-> "shape_volume"]>>

\* lines 253-256: SELECT COUNT(*), MIN(col), MAX(col) FROM the join
\* WHERE {where} AND col IS NOT NULL
AggregateRow(w, f) ==
    LET stmt == [from |-> FromClause(TRUE), where |-> w.where, args |-> w.args]
        vals == {j \in Matching(stmt) : Col(j, f.tbl, f.col).k = "val"}
        nums == {Col(j, f.tbl, f.col).v : j \in vals}
    IN  [n |-> Cardinality(vals),
         lo |-> IF nums = {} THEN Null
                ELSE Val(CHOOSE x \in nums : \A y \in nums : x <= y),
         hi |-> IF nums = {} THEN Null
                ELSE Val(CHOOSE x \in nums : \A y \in nums : x >= y)]

\* (variant) the n > 0 test dropped
AggregateEntriesAll(w) ==
    {[name |-> AggregateFields[i].name,
      count |-> AggregateRow(w, AggregateFields[i]).n,
      min |-> AggregateRow(w, AggregateFields[i]).lo,
      max |-> AggregateRow(w, AggregateFields[i]).hi] : i \in 1..Len(AggregateFields)}

\* lines 251-258: the loop and the n > 0 test
AggregateEntries(w) ==
    {[name |-> AggregateFields[i].name,
      count |-> AggregateRow(w, AggregateFields[i]).n,
      min |-> AggregateRow(w, AggregateFields[i]).lo,
      max |-> AggregateRow(w, AggregateFields[i]).hi] :
        i \in {k \in 1..Len(AggregateFields) : AggregateRow(w, AggregateFields[k]).n > 0}}

\* lines 232-259
AggregatesMolecules ==
    /\ q.pc = "request"
    /\ q' = [pc |-> "aggregated",
             aggregates |-> AggregateEntries(BuildWhere(TheDataset, body))]
    /\ UNCHANGED <<storeVars, op, atStart, nops, nread, body, cell, web>>

\* the stores aggregated: as InitPage, with energies that may be NaN
AggregateEnergies == {Val(50), Val(70), Val(NaNValue)}

InitAggregates ==
    /\ \E w \in [1..MaxMols -> PageWeights], ng \in 0..MaxMols :
       \E e \in [1..ng -> AggregateEnergies] :
           /\ discovered_molecule = {MoleculeRow(TheDataset, c, w[c]) : c \in 1..MaxMols}
                                        \cup {MoleculeRow("d2", 1, Val(100))}
           /\ molecule_geometry = {HotRow(TheDataset, c, e[c]) : c \in 1..ng}
           /\ molecule_geometry_cold = {ColdRow(TheDataset, c) : c \in 1..ng}
    /\ dataset = {[dataset_id |-> d, name |-> d, ingest_run_id |-> 1] : d \in Datasets}
    /\ ingest_run = {[run_id |-> 1, dataset_id |-> TheDataset, status |-> "completed",
                      finished |-> TRUE,
                      stats |-> Val([total_rows |-> MaxMols,
                                     molecules_upserted |-> MaxMols])]}
    /\ op = IdleOp
    /\ atStart = Snapshot
    /\ nops = 0
    /\ nread = [rows |-> 0, recs |-> 0]
    /\ web = NoWeb
    /\ cell = NoCell
    /\ \E rng \in PageRanges :
           body = [seed_name |-> Null, methods |-> Null, ranges |-> rng, sort |-> Null,
                   page |-> Null]
    /\ q = [pc |-> "request"]

SpecAggregates == InitAggregates /\ [][AggregatesMolecules]_vars

-----------------------------------------------------------------------------
(* ingest/parse.py and the text columns of build_molecule_rows *)

\* longest discovery_seed text tried
MaxSeedLen == 4

\* text is a sequence of characters; these are the ones the parse tells apart
SeedChars == {"a", ":", " "}
SeedTexts == SeqsUpTo(SeedChars, MaxSeedLen)
\* the discovery_seed cell of a manifest row: missing, or text
SeedCells == {Null} \cup {Val(t) : t \in SeedTexts}

\* str.strip()
RECURSIVE LStrip(_)
LStrip(t) == IF t # <<>> /\ Head(t) = " " THEN LStrip(Tail(t)) ELSE t
RECURSIVE RStrip(_)
RStrip(t) == IF t # <<>> /\ t[Len(t)] = " " THEN RStrip(SubSeq(t, 1, Len(t) - 1)) ELSE t
Strip(t) == RStrip(LStrip(t))

\* x or None
OrNone(t) == IF t = <<>> THEN Null ELSE Val(t)

HasColon(t) == \E i \in 1..Len(t) : t[i] = ":"

\* (variant) str.rpartition(":"): split at the last colon
PartitionLast(t) ==
    LET i == CHOOSE k \in 1..Len(t) : t[k] = ":" /\ \A j \in (k + 1)..Len(t) : t[j] # ":"
    IN  [name |-> SubSeq(t, 1, i - 1), rest |-> SubSeq(t, i + 1, Len(t))]

\* str.partition(":"): split at the first colon
Partition(t) ==
    LET i == CHOOSE k \in 1..Len(t) : t[k] = ":" /\ \A j \in 1..(k - 1) : t[j] # ":"
    IN  [name |-> SubSeq(t, 1, i - 1), rest |-> SubSeq(t, i + 1, Len(t))]

\* parse.py lines 5-13
parse_discovery_seed(discovery_seed) ==
    IF discovery_seed.k = "null" \/ Strip(discovery_seed.v) = <<>>
    THEN [seed_name |-> Null, seed_smiles |-> Null]
    ELSE LET t == Strip(discovery_seed.v)
         IN  IF HasColon(t)
             THEN [seed_name |-> OrNone(Strip(Partition(t).name)),
                   seed_smiles |-> OrNone(Strip(Partition(t).rest))]
             ELSE [seed_name |-> Val(t), seed_smiles |-> Null]

\* csv_ingest.py lines 75-78 and 95-97: the three seed columns of a row;
\* seed_raw is missing (pd.isna) or text
SeedColumns(seed_raw) ==
    LET parsed == parse_discovery_seed(seed_raw)
    IN  [discovery_seed |-> IF seed_raw.k = "null" THEN Null ELSE OrNone(Strip(seed_raw.v)),
         seed_name |-> parsed.seed_name,
         seed_smiles |-> parsed.seed_smiles]

\* build_molecule_rows reads the discovery_seed cell of one row
BuildSeedColumns ==
    /\ cell.pc = "raw"
    /\ cell.column = "discovery_seed"
    /\ cell' = [cell EXCEPT !.pc = "built", !.row = SeedColumns(cell.raw)]
    /\ UNCHANGED <<storeVars, op, atStart, nops, nread, body, q, web>>

NoColumns == [discovery_seed |-> Null, seed_name |-> Null, seed_smiles |-> Null]

InitSeed ==
    /\ InitStore
    /\ op = IdleOp
    /\ atStart = Snapshot
    /\ nops = 0
    /\ nread = [rows |-> 0, recs |-> 0]
    /\ web = NoWeb
    /\ body = EmptyBody
    /\ q = EmptyQ
    /\ \E c \in SeedCells :
           cell = [pc |-> "raw", column |-> "discovery_seed", raw |-> c, row |-> NoColumns]

SpecSeed == InitSeed /\ [][BuildSeedColumns]_vars

-----------------------------------------------------------------------------
(* csv_ingest.py: normalize_discovery_method *)

\* a method text: a word in some letter case, with or without blanks around
\* it; the empty word with blanks is a blank text
MethodWords == {"", "similarity", "substructure", "sim2d", "sim3d", "weird-method"}
LetterCases == {"lower", "upper", "mixed"}
MethodTexts ==
    {t \in [lpad : BOOLEAN, word : MethodWords, case : LetterCases, rpad : BOOLEAN] :
        t.word = "" => t.case = "lower" /\ ~t.rpad}
\* the discovery_method cell of a manifest row: missing, or text
MethodCells == {Null} \cup {Val(t) : t \in MethodTexts}

\* a literal of the source
Lit(word) == [lpad |-> FALSE, word |-> word, case |-> "lower", rpad |-> FALSE]

\* str.strip() and str.lower() on such a text
StripText(t) == [t EXCEPT !.lpad = FALSE, !.rpad = FALSE]
LowerText(t) == [t EXCEPT !.case = "lower"]

\* lines 40-49; the argument is None or str(cell)
normalize_discovery_method(method) ==
    IF method.k = "null" \/ method.v = Lit("") \/ StripText(method.v) = Lit("")
    THEN Lit("substructure")
    ELSE LET m == LowerText(StripText(method.v))
         IN  IF m \in {Lit("substructure"), Lit("sim2d"), Lit("sim3d")} THEN m
             ELSE IF m = Lit("similarity") THEN Lit("sim2d")
             ELSE m

\* build_molecule_rows, lines 79-81 and 94
BuildMethodColumn ==
    /\ cell.pc = "raw"
    /\ cell.column = "discovery_method"
    /\ cell' = [cell EXCEPT !.pc = "built", !.method = normalize_discovery_method(cell.raw)]
    /\ UNCHANGED <<storeVars, op, atStart, nops, nread, body, q, web>>

InitMethod ==
    /\ InitStore
    /\ op = IdleOp
    /\ atStart = Snapshot
    /\ nops = 0
    /\ nread = [rows |-> 0, recs |-> 0]
    /\ web = NoWeb
    /\ body = EmptyBody
    /\ q = EmptyQ
    /\ \E c \in MethodCells :
           cell = [pc |-> "raw", column |-> "discovery_method", raw |-> c, method |-> Lit("")]

SpecMethod == InitMethod /\ [][BuildMethodColumn]_vars

-----------------------------------------------------------------------------
(* app/main.py: the connection pool, get_conn and get_geometry *)

\* requests sent to the API; connections of the pool (max_size, 10 in
\* lifespan, here fewer than the requests so that a request has to wait)
MaxRequests == 3
PoolSize == 2

RequestIds == 1..MaxRequests
Conns == 1..PoolSize
NoConn == 0

Formats == {"molblock", "moleculoids_json"}

\* held counts the connections the request was given
IdleRequest == [pc |-> "idle", conn |-> NoConn, status |-> 0, held |-> 0]

\* a request arrives: FastAPI resolves Depends(get_conn), which awaits
\* pool.acquire()
Arrive(r) ==
    /\ web.reqs[r].pc = "idle"
    /\ web' = [web EXCEPT !.reqs[r].pc = "waiting"]
    /\ UNCHANGED <<storeVars, op, atStart, nops, nread, body, q, cell>>

\* pool.acquire() returns a free connection; get_conn yields it
Acquire(r) ==
    /\ web.reqs[r].pc = "waiting"
    /\ \E c \in web.free :
           web' = [web EXCEPT !.free = @ \ {c},
                              !.reqs[r].pc = "handler",
                              !.reqs[r].conn = c,
                              !.reqs[r].held = @ + 1]
    /\ UNCHANGED <<storeVars, op, atStart, nops, nread, body, q, cell>>

\* get_geometry, lines 319-333, on the connection it was given: the status
\* of the response; failed says conn.fetchrow raised, invalid says
\* molblock_to_moleculoids_json raised ValueError
GeometryStatus(cid, format, failed, invalid) ==
    LET cold == {x \in molecule_geometry_cold : x.dataset_id = TheDataset /\ x.cid = cid}
    IN  IF failed THEN 500
        ELSE IF cold = {} \/ \A x \in cold : x.molblock = "" THEN 404
        ELSE IF format = "moleculoids_json" /\ invalid THEN 400
        ELSE 200

GetGeometry(r, cid, format) ==
    /\ web.reqs[r].pc = "handler"
    /\ \E failed, invalid \in BOOLEAN :
           web' = [web EXCEPT !.reqs[r].pc = "leaving",
                              !.reqs[r].status = GeometryStatus(cid, format, failed, invalid)]
    /\ UNCHANGED <<storeVars, op, atStart, nops, nread, body, q, cell>>

\* (variant) acquire, yield, release with no context manager around the
\* yield: an exception thrown into get_conn skips the release
ReturnConnOnSuccess(free, c, status) == IF status = 200 THEN free \cup {c} ELSE free

\* lines 36-38: `async with pool.acquire() as conn` ends, whatever ended it
ReturnConn(free, c, status) == free \cup {c}

\* the response is made; FastAPI closes get_conn (or throws the handler's
\* exception into it)
Leave(r) ==
    /\ web.reqs[r].pc = "leaving"
    /\ web' = [web EXCEPT !.free = ReturnConn(@, web.reqs[r].conn, web.reqs[r].status),
                          !.reqs[r].pc = "done",
                          !.reqs[r].conn = NoConn]
    /\ UNCHANGED <<storeVars, op, atStart, nops, nread, body, q, cell>>

\* the API is up over a store holding the geometry of molecule 1
InitPool ==
    /\ discovered_molecule = {MoleculeRow(TheDataset, c, Val(100)) : c \in 1..2}
    /\ molecule_geometry = {HotRow(TheDataset, 1, Val(50))}
    /\ molecule_geometry_cold = {ColdRow(TheDataset, 1)}
    /\ dataset = {[dataset_id |-> TheDataset, name |-> TheDataset, ingest_run_id |-> 1]}
    /\ ingest_run = {[run_id |-> 1, dataset_id |-> TheDataset, status |-> "completed",
                      finished |-> TRUE,
                      stats |-> Val([total_rows |-> 2, molecules_upserted |-> 2])]}
    /\ op = IdleOp
    /\ atStart = Snapshot
    /\ nops = 0
    /\ nread = [rows |-> 0, recs |-> 0]
    /\ body = EmptyBody
    /\ q = EmptyQ
    /\ cell = NoCell
    /\ web = [pc |-> "up", free |-> Conns, reqs |-> [r \in RequestIds |-> IdleRequest]]

NextPool ==
    \E r \in RequestIds :
        \/ Arrive(r)
        \/ Acquire(r)
        \/ \E cid \in 1..2, format \in Formats : GetGeometry(r, cid, format)
        \/ Leave(r)

\* the event loop runs every task that can run, the pool serves its
\* waiters in turn, and the clients send their requests
SpecPool ==
    /\ InitPool
    /\ [][NextPool]_vars
    /\ \A r \in RequestIds :
           /\ WF_vars(Arrive(r))
           /\ SF_vars(Acquire(r))
           /\ WF_vars(\E cid \in 1..2, format \in Formats : GetGeometry(r, cid, format))
           /\ WF_vars(Leave(r))

-----------------------------------------------------------------------------
(* sdf_ingest.py: the identifier of one record *)

\* largest identifier text tried, in tenths
MaxTenths == 25

\* the identifier property of a record: absent or empty, text, or a number
\* written with one decimal
ReaderCidCells == {NaN, Str("x")} \cup {Num(n) : n \in 0..MaxTenths}
ReaderRecords == [parses : BOOLEAN, PUBCHEM_COMPOUND_CID : ReaderCidCells,
                  PUBCHEM_MMFF94_ENERGY : EnergyCells, molblock : {"mb"}]

\* iter_sdf_records, lines 84-121, on one record of the file
ReadRecord ==
    /\ cell.pc = "raw"
    /\ cell.column = "PUBCHEM_COMPOUND_CID"
    /\ cell' = [cell EXCEPT !.pc = "built",
                            !.yielded = Yields(cell.raw),
                            !.cid = IF Yields(cell.raw)
                                    THEN IntFloat(cell.raw.PUBCHEM_COMPOUND_CID) ELSE 0]
    /\ UNCHANGED <<storeVars, op, atStart, nops, nread, body, q, web>>

InitReader ==
    /\ InitStore
    /\ op = IdleOp
    /\ atStart = Snapshot
    /\ nops = 0
    /\ nread = [rows |-> 0, recs |-> 0]
    /\ web = NoWeb
    /\ body = EmptyBody
    /\ q = EmptyQ
    /\ \E rec \in ReaderRecords :
           cell = [pc |-> "raw", column |-> "PUBCHEM_COMPOUND_CID", raw |-> rec,
                   yielded |-> FALSE, cid |-> 0]

SpecReader == InitReader /\ [][ReadRecord]_vars

-----------------------------------------------------------------------------
(* Properties of ingestion *)

Cids == {1, 2}

HasRow(tbl, ds, cid) == \E x \in tbl : x.dataset_id = ds /\ x.cid = cid

\* C1: after any sequence of ingest_csv and ingest_sdf commands every row of
\* molecule_geometry and of molecule_geometry_cold has the key of a
\* discovered_molecule row; a yielded record whose cid has no manifest row in
\* its dataset is counted in skipped and causes no geometry statement.
C1_GeometryReferencesManifest ==
    /\ \A g \in molecule_geometry : HasRow(discovered_molecule, g.dataset_id, g.cid)
    /\ \A c \in molecule_geometry_cold : HasRow(discovered_molecule, c.dataset_id, c.cid)
    /\ op.kind = "sdf" =>
        /\ op.skipped = op.unknown_seen
        /\ op.geom_writes <= 2 * (op.yielded - op.unknown_seen)

\* C1 witness: an ingest_sdf command has returned after writing one record
\* and skipping another whose cid the dataset's manifest does not hold.
C1_Witness ==
    /\ op.kind = "sdf" /\ op.exit = "ok"
    /\ op.count >= 1 /\ op.skipped >= 1
    /\ molecule_geometry_cold # {}

\* C2: in every state of the store a molecule_geometry row exists for
\* (dataset_id, cid) if and only if a molecule_geometry_cold row does.
C2_HotIffCold ==
    \A ds \in Datasets, cid \in Cids :
        HasRow(molecule_geometry, ds, cid) <=> HasRow(molecule_geometry_cold, ds, cid)

\* the manifest fields of a discovered_molecule row
ManifestFields(m) ==
    [dataset_id |-> m.dataset_id, cid |-> m.cid, molecular_weight |-> m.molecular_weight]

\* the rows of the current manifest that upsert_molecules has written so far
Upserted == IF op.kind = "csv" /\ op.idx >= 1 THEN SubSeq(op.rows, 1, op.idx - 1) ELSE <<>>

RowsOf(tbl, ds, cid) == {m \in tbl : m.dataset_id = ds /\ m.cid = cid}

Max(S) == CHOOSE x \in S : \A y \in S : y <= x

\* C3: discovered_molecule holds at most one row per (dataset_id, cid); the
\* row of a key equals the last row upserted for it (the later one of two
\* rows of one file), and a key the manifest has not reached keeps its row;
\* a manifest whose rows are all in the table already changes no manifest
\* field and adds no row.
C3_LastWriteWins ==
    /\ \A m1, m2 \in discovered_molecule :
           (m1.dataset_id = m2.dataset_id /\ m1.cid = m2.cid) => m1 = m2
    /\ \A ds \in Datasets, cid \in Cids :
           LET at == {i \in 1..Len(Upserted) :
                          Upserted[i].dataset_id = ds /\ Upserted[i].cid = cid}
           IN  IF at = {}
               THEN RowsOf(discovered_molecule, ds, cid)
                        = RowsOf(atStart.discovered_molecule, ds, cid)
               ELSE RowsOf(discovered_molecule, ds, cid) = {Upserted[Max(at)]}
    /\ (/\ op.kind = "csv" /\ op.exit = "ok"
        /\ \A i \in 1..Len(op.rows) :
               \E m \in atStart.discovered_molecule :
                   ManifestFields(m) = ManifestFields(op.rows[i]))
           => {ManifestFields(m) : m \in discovered_molecule}
                  = {ManifestFields(m) : m \in atStart.discovered_molecule}

\* C3 witness: a manifest ingestion has completed and replaced the
\* molecular_weight an earlier ingestion stored for the same key.
C3_Witness ==
    /\ op.kind = "csv" /\ op.exit = "ok"
    /\ \E m \in discovered_molecule, m0 \in atStart.discovered_molecule :
           /\ m.dataset_id = m0.dataset_id /\ m.cid = m0.cid
           /\ m.molecular_weight # m0.molecular_weight

\* C4: an ingest_sdf command that ends because one of its paths does not
\* exist has written no molecule_geometry and no molecule_geometry_cold row.
C4_MissingSourceWritesNothing ==
    (op.kind = "sdf" /\ op.exit = "FileNotFoundError") =>
        /\ op.geom_writes = 0
        /\ molecule_geometry = atStart.molecule_geometry
        /\ molecule_geometry_cold = atStart.molecule_geometry_cold

\* C5: an ingest_csv command whose manifest is missing or lacks a required
\* column ends with a fatal error and leaves dataset, ingest_run and
\* discovered_molecule as they were.
C5_BadManifestWritesNothing ==
    (op.kind = "csv" /\ op.file \in {"missing", "lacks_columns"}) =>
        /\ op.pc = "exit"
        /\ op.exit \in {"FileNotFoundError", "sys.exit(1)"}
        /\ dataset = atStart.dataset
        /\ ingest_run = atStart.ingest_run
        /\ discovered_molecule = atStart.discovered_molecule

\* C5 witness: a manifest lacking a required column was given for a dataset
\* that an earlier ingestion has filled.
C5_Witness ==
    /\ op.kind = "csv" /\ op.file = "lacks_columns" /\ op.exit = "sys.exit(1)"
    /\ HasRow(discovered_molecule, op.dataset_id, 1)
    /\ \E d \in dataset : d.dataset_id = op.dataset_id

\* C6: build_molecule_rows never raises on a numeric cell that cannot be
\* parsed: every row read with a usable identifier becomes a built row, and
\* the command goes on to upsert them.
C6_MalformedCellNeverAborts ==
    op.kind = "csv" =>
        /\ op.exit # "ValueError"
        /\ op.pc \notin {"csv_build", "exit"} => Len(op.rows) = op.valid_seen

-----------------------------------------------------------------------------
(* Properties of the run record *)

RunRows(id) == {r \in ingest_run : r.run_id = id}

C14_States ==
    /\ \A r \in ingest_run : r.status \in {"running", "completed", "failed"}
    /\ \A m \in discovered_molecule : RunRows(m.ingest_run_id) # {}
    /\ (op.kind = "csv" /\ op.pc = "csv_upsert") =>
           /\ RunRows(op.run_id) # {}
           /\ \A r \in RunRows(op.run_id) : r.status = "running" /\ ~r.finished
    /\ \A r \in ingest_run :
           r.status = "completed" =>
               /\ r.finished
               /\ r.stats.k = "val"
               /\ (op.kind = "csv" /\ r.run_id = op.run_id) =>
                      /\ op.idx > Len(op.rows)
                      /\ r.stats.v.molecules_upserted = op.valid_seen
                      /\ r.stats.v.total_rows = op.total_rows
                      /\ \A i \in 1..Len(op.rows) :
                             \E m \in discovered_molecule :
                                 SameKey(m, op.rows[i]) /\ m.ingest_run_id = r.run_id

C14_Steps ==
    \A r \in ingest_run :
        r.status = "completed" =>
            \E r2 \in ingest_run' : r2.run_id = r.run_id /\ r2.status = "completed"

\* C14: the ingest_run row of an ingest_csv run exists with status
\* 'running' before its first molecule is upserted and while they are
\* upserted; it is 'completed', with the statistics and the upserted-row
\* count, only once every valid row is upserted; a status is one of
\* running, completed, failed; a completed run stays completed.
C14_RunLifecycle == [](C14_States) /\ [][C14_Steps]_vars

\* a run has completed after upserting one row of a two-row manifest whose
\* other row has no usable identifier
C14_Witness ==
    /\ op.kind = "csv" /\ op.exit = "ok"
    /\ \E r \in RunRows(op.run_id) :
           /\ r.status = "completed"
           /\ r.stats.v.total_rows = 2
           /\ r.stats.v.molecules_upserted = 1
    /\ \E m \in discovered_molecule : m.ingest_run_id = op.run_id

-----------------------------------------------------------------------------
(* Properties of the connection pool *)

Holding(r) == web.reqs[r].pc \in {"handler", "leaving"}

C15_States ==
    /\ \A r \in RequestIds :
           /\ Holding(r) => (web.reqs[r].conn \in Conns /\ web.reqs[r].conn \notin web.free)
           /\ ~Holding(r) => web.reqs[r].conn = NoConn
           /\ web.reqs[r].held <= 1
           /\ web.reqs[r].pc = "done" => web.reqs[r].held = 1
           /\ (web.reqs[r].pc = "waiting" /\ web.free # {}) => ENABLED Acquire(r)
    /\ \A r1, r2 \in RequestIds :
           (r1 # r2 /\ Holding(r1) /\ Holding(r2)) => web.reqs[r1].conn # web.reqs[r2].conn
    /\ web.free \cup {web.reqs[r].conn : r \in {x \in RequestIds : Holding(x)}} = Conns
    /\ (\A r \in RequestIds : web.reqs[r].pc \in {"idle", "done"}) => web.free = Conns

AllReturned == (\A r \in RequestIds : web.reqs[r].pc = "done") /\ web.free = Conns

\* C15: a request holds exactly one connection of the pool while its
\* handler runs, no two requests hold the same one, a waiting request can
\* go on as soon as a connection is free, the connection goes back to the
\* pool whether the handler returned, raised 404 or 400, or the database
\* raised, and once every request has finished the pool is whole again.
C15_OneConnectionPerRequest == [](C15_States) /\ <>[]AllReturned

\* more requests than connections: one waits on an empty pool, one has
\* failed with 404 and is about to give its connection back, and one has
\* got back the connection that a finished request returned
C15_Witness ==
    /\ web.pc = "up"
    /\ web.free = {}
    /\ \E r \in RequestIds : web.reqs[r].pc = "waiting"
    /\ \E r \in RequestIds : web.reqs[r].pc = "leaving" /\ web.reqs[r].status = 404

-----------------------------------------------------------------------------
(* Properties of the structural record reader *)

RecordRead == cell.pc = "built" /\ cell.column = "PUBCHEM_COMPOUND_CID"

IntegerValued(c) == c.k = "num" /\ c.n % 10 = 0

\* C16: a record whose identifier is absent, empty, not a number, or a
\* number that is not integer-valued is skipped; a record is yielded only
\* when its identifier is an integer-valued number, with that integer as cid.
C16_OnlyIntegerIdentifiers ==
    RecordRead =>
        /\ ~IntegerValued(cell.raw.PUBCHEM_COMPOUND_CID) => ~cell.yielded
        /\ cell.yielded => cell.cid * 10 = cell.raw.PUBCHEM_COMPOUND_CID.n

\* what the reader does: an identifier that is no number is skipped, a
\* number is yielded cut down to its integer part
C16_IdentifierTruncated ==
    RecordRead =>
        /\ cell.raw.PUBCHEM_COMPOUND_CID.k # "num" => ~cell.yielded
        /\ ~cell.raw.parses => ~cell.yielded
        /\ (cell.raw.parses /\ cell.raw.PUBCHEM_COMPOUND_CID.k = "num") =>
               /\ cell.yielded
               /\ cell.cid * 10 <= cell.raw.PUBCHEM_COMPOUND_CID.n
               /\ cell.raw.PUBCHEM_COMPOUND_CID.n < (cell.cid + 1) * 10

-----------------------------------------------------------------------------
(* Properties of the reported counts *)

\* the manifest half: a completed run reports total_rows and
\* molecules_upserted, and they differ by the rows without a usable
\* identifier
C17_ManifestRowsCounted ==
    (op.kind = "csv" /\ op.exit = "ok") =>
        \A r \in RunRows(op.run_id) :
            /\ r.stats.k = "val"
            /\ r.stats.v.total_rows = op.total_rows
            /\ r.stats.v.molecules_upserted = op.valid_seen
            /\ r.stats.v.total_rows
                   = r.stats.v.molecules_upserted + (op.total_rows - op.valid_seen)

\* C17: every unit dropped is counted: total_rows of ingest_csv is
\* molecules_upserted plus the rows dropped, and every record ingest_sdf
\* has read is in its count of geometry rows or in its count of dropped
\* records (here for a command given one file).
C17_EveryDropCounted ==
    /\ C17_ManifestRowsCounted
    /\ (op.kind = "sdf" /\ op.exit = "ok" /\ op.paths_done = 1) =>
           op.nrec = op.count + op.skipped

\* what ingest_sdf counts: the records the reader yields
C17_YieldedRecordsCounted ==
    (op.kind = "sdf" /\ op.exit = "ok") => op.yielded = op.count + op.skipped

-----------------------------------------------------------------------------
(* Properties of a failed manifest run *)

\* ingest_csv has ended with a database error after ensure_dataset_and_run
\* had inserted the run
FailedAfterEnsure ==
    op.kind = "csv" /\ op.exit = "PostgresError" /\ RunRows(op.run_id) # {}

C19_States ==
    FailedAfterEnsure =>
        /\ \A r \in RunRows(op.run_id) :
               r.status = "running" /\ ~r.finished /\ r.stats = Null
        /\ \E d \in dataset : d.dataset_id = op.dataset_id /\ d.ingest_run_id = op.run_id
        /\ \A i \in 1..Len(Upserted) :
               \E m \in discovered_molecule :
                   SameKey(m, Upserted[i]) /\ m.ingest_run_id = op.run_id

\* a run row whose command has ended is not written again
C19_Steps ==
    \A r \in ingest_run :
        (r.status = "running" /\ (op.pc = "exit" \/ r.run_id # op.run_id)) => r \in ingest_run'

\* C19: when a database write of ingest_csv fails after
\* ensure_dataset_and_run, the error leaves the command, the molecules
\* upserted before it stay, the dataset row names the new run, and the run
\* row stays 'running' without finish time: nothing moves it later.
C19_FailedRunStaysRunning == [](C19_States) /\ [][C19_Steps]_vars

\* the second upsert of a two-row manifest failed, and another command has
\* not yet begun
C19_Witness ==
    /\ FailedAfterEnsure
    /\ Len(op.rows) = 2 /\ op.idx = 2
    /\ \E m \in discovered_molecule : m.ingest_run_id = op.run_id
    /\ \E r \in RunRows(op.run_id) : r.status = "running"

-----------------------------------------------------------------------------
(* Properties of the query engine *)

Served == q.pc \in {"answered", "error", "done"}

RECURSIVE Placeholders(_)
Placeholders(where) ==
    IF where = <<>> THEN <<>> ELSE Head(where).ph \o Placeholders(Tail(where))

Distinct(x) == \A i, k \in 1..Len(x) : i # k => x[i] # x[k]

\* C7: paging through offsets 0, L, 2L, ... with fixed filters and sort
\* over an unchanging store, the total equals the sum of the page sizes and
\* the pages hold every matching molecule exactly once, also when the sort
\* key has equal or NULL values on several rows.
C7_PagesPartitionMatches ==
    q.pc = "done" =>
        /\ q.total = Len(q.seen)
        /\ Distinct(q.seen)
        /\ {q.seen[i] : i \in 1..Len(q.seen)} = {j.m.cid : j \in Matching(q.sql.count)}

\* the value each condition's placeholders must carry
BoundAsMeant(c, args) ==
    CASE c.kind = "dataset" -> args[c.ph[1]] = ArgS(TheDataset)
      [] c.kind = "seed" -> args[c.ph[1]] = ArgS(body.seed_name.v)
      [] c.kind = "methods" -> args[c.ph[1]] = ArgL(body.methods.v)
      [] c.kind = "range" ->
            \E i \in 1..Len(body.ranges.v) :
                /\ body.ranges.v[i].field = c.field
                /\ args[c.ph[1]] = ArgF(body.ranges.v[i].pair[1])
                /\ args[c.ph[2]] = ArgF(body.ranges.v[i].pair[2])

\* C8: the page query and the count query have the same FROM, the same
\* WHERE and the same parameter values; the placeholders of WHERE are
\* $1, $2, ... in order, $k carries the k-th parameter, which is the value
\* its condition is about; LIMIT and OFFSET are the next two parameters, and
\* the count query has neither.
C8_SameFilterSequentialBinding ==
    Served =>
        LET pg == q.sql.page
            ct == q.sql.count
            n == Len(Placeholders(pg.where))
        IN  /\ ct.from = pg.from
            /\ ct.where = pg.where
            /\ ct.args = SubSeq(pg.args, 1, n)
            /\ Len(ct.args) = n
            /\ Placeholders(pg.where) = [k \in 1..n |-> k]
            /\ \A i \in 1..Len(pg.where) : BoundAsMeant(pg.where[i], pg.args)
            /\ Len(pg.args) = n + 2
            /\ pg.limit_ph = n + 1
            /\ pg.offset_ph = n + 2
            /\ pg.args[n + 1] = ArgI(PageOf(body).limit)
            /\ pg.args[n + 2] = ArgI(PageOf(body).offset)
            /\ ct.limit_ph = 0
            /\ ct.offset_ph = 0

\* seed, methods and two range filters with a caller's page: $1..$7, then
\* LIMIT $8 OFFSET $9
C8_Witness ==
    /\ Served
    /\ Len(q.sql.page.where) = 5
    /\ Len(q.sql.count.args) = 7
    /\ body.page.k = "val"

RangeKeys(b) ==
    IF b.ranges.k = "val" THEN {b.ranges.v[i].field : i \in 1..Len(b.ranges.v)} ELSE {}
SortFields(b) ==
    IF b.sort.k = "val" THEN {b.sort.v[i].field : i \in 1..Len(b.sort.v)} ELSE {}
RefersToGeometry(stmt) ==
    \/ \E i \in 1..Len(stmt.where) : stmt.where[i].tbl = "g"
    \/ \E i \in 1..Len(stmt.order) : stmt.order[i].tbl = "g"

Ignored(e) ==
    \/ e.field \notin {"molecular_weight", "TPSA", "XLogP3", "HBA", "HBD", "rotatable_bonds",
                      "mmff94_energy", "shape_volume"}
    \/ Len(e.pair) < 2

Without(x, i) == SubSeq(x, 1, i - 1) \o SubSeq(x, i + 1, Len(x))

\* C10: a ranges entry with a field outside the allow-list or with fewer
\* than two bounds adds no condition and no parameter: the WHERE and the
\* parameters are those of the request without the entry, placeholder
\* numbers included.
C10_IgnoredEntryChangesNothing ==
    (Served /\ body.ranges.k = "val") =>
        \A i \in 1..Len(body.ranges.v) :
            Ignored(body.ranges.v[i]) =>
                LET without == [body EXCEPT !.ranges = Val(Without(body.ranges.v, i))]
                    w == BuildWhere(TheDataset, without)
                IN  /\ q.sql.page.where = w.where
                    /\ q.sql.count.args = w.args
                    /\ \A k \in 1..Len(q.sql.page.where) :
                           q.sql.page.where[k].field # body.ranges.v[i].field

\* an unknown field with two bounds, ahead of an allowed range filter
C10_Witness ==
    /\ Served
    /\ body.ranges.k = "val"
    /\ Len(body.ranges.v) = 2
    /\ body.ranges.v[1].field = "bogus"
    /\ Len(body.ranges.v[1].pair) = 2
    /\ ~Ignored(body.ranges.v[2])
    /\ \E k \in 1..Len(q.sql.page.where) : q.sql.page.where[k].kind = "range"

\* the rows of the dataset that pass the request's range filters and
\* have a value in the field, read from the store and the request
ValueOf(m, name) ==
    IF name = "molecular_weight" THEN m.molecular_weight
    ELSE IF name = "mmff94_energy"
         THEN IF \E g \in molecule_geometry : SameKey(g, m)
              THEN (CHOOSE g \in molecule_geometry : SameKey(g, m)).mmff94_energy
              ELSE Null
         ELSE Null

InRange(m, e) ==
    /\ ValueOf(m, e.field).k = "val"
    /\ ValueOf(m, e.field).v >= e.pair[1]
    /\ ValueOf(m, e.field).v <= e.pair[2]

Counted(name) ==
    {m \in discovered_molecule :
        /\ m.dataset_id = TheDataset
        /\ body.ranges.k = "val" => \A i \in 1..Len(body.ranges.v) :
               ~Ignored(body.ranges.v[i]) => InRange(m, body.ranges.v[i])
        /\ ValueOf(m, name).k = "val"}

AggregateNames == {"molecular_weight", "TPSA", "XLogP3", "HBA", "HBD", "rotatable_bonds",
                   "mmff94_energy", "shape_volume"}

\* C11: aggregates_molecules returns an entry for a field exactly when
\* some matching row has a value in it; count is the number of such rows
\* and min and max are not null.
C11_EntryPerFieldWithValues ==
    q.pc = "aggregated" =>
        /\ \A name \in AggregateNames :
               (\E a \in q.aggregates : a.name = name) <=> Counted(name) # {}
        /\ \A a \in q.aggregates :
               /\ a.name \in AggregateNames
               /\ a.count = Cardinality(Counted(a.name))
               /\ a.min.k = "val"
               /\ a.max.k = "val"
               /\ \A m \in Counted(a.name) :
                      a.min.v <= ValueOf(m, a.name).v /\ ValueOf(m, a.name).v <= a.max.v

\* C11 (as stated): and in every returned entry min <= max.
C11_MinAtMostMax ==
    C11_EntryPerFieldWithValues
        /\ (q.pc = "aggregated" => \A a \in q.aggregates : PyLe(a.min.v, a.max.v))

\* a range filter that leaves one field with values and one without
C11_Witness ==
    /\ q.pc = "aggregated"
    /\ body.ranges.k = "val"
    /\ \E a \in q.aggregates : a.name = "molecular_weight" /\ a.count = 2 /\ a.min.v < a.max.v
    /\ ~\E a \in q.aggregates : a.name = "mmff94_energy"
    /\ \E g \in molecule_geometry : TRUE

-----------------------------------------------------------------------------
(* Properties of the text columns *)

FirstColon(t) == CHOOSE k \in 1..Len(t) : t[k] = ":" /\ \A j \in 1..(k - 1) : t[j] # ":"
Blank(c) == c.k = "null" \/ \A i \in 1..Len(c.v) : c.v[i] = " "
\* a text with neither leading nor trailing blank
Trimmed(t) == t = <<>> \/ (t[1] # " " /\ t[Len(t)] # " ")
\* u is t without its leading and trailing blanks
TrimOf(u, t) ==
    /\ Trimmed(u)
    /\ \E i \in 0..Len(t) : \E k \in 0..(Len(t) - i) :
           /\ u = SubSeq(t, i + 1, Len(t) - k)
           /\ \A x \in 1..i : t[x] = " "
           /\ \A x \in (Len(t) - k + 1)..Len(t) : t[x] = " "
           /\ (u = <<>> => i = Len(t))
\* the text before and after the first colon of the trimmed cell
Before(t) == SubSeq(t, 1, FirstColon(t) - 1)
After(t) == SubSeq(t, FirstColon(t) + 1, Len(t))

SeedBuilt == cell.pc = "built" /\ cell.column = "discovery_seed"

\* what holds of every parse: blank, no colon, the derived columns
SeedParseCommon ==
    /\ Blank(cell.raw) => cell.row.seed_name = Null /\ cell.row.seed_smiles = Null
    /\ (~Blank(cell.raw) /\ ~HasColon(cell.raw.v)) =>
           /\ cell.row.seed_name.k = "val"
           /\ TrimOf(cell.row.seed_name.v, cell.raw.v)
           /\ cell.row.seed_smiles = Null
    /\ cell.row.seed_smiles # Null => (cell.raw.k = "val" /\ HasColon(cell.raw.v))
    /\ parse_discovery_seed(cell.row.discovery_seed)
           = [seed_name |-> cell.row.seed_name, seed_smiles |-> cell.row.seed_smiles]

\* C12 (as stated): null or blank gives (null, null); no colon gives
\* (trimmed text, null); a colon gives (trimmed text before the first colon,
\* trimmed text after it); seed_smiles is non-null only with a colon; the
\* stored seed_name and seed_smiles are the parse of the stored discovery_seed.
C12_SplitOnFirstColon ==
    SeedBuilt =>
        /\ SeedParseCommon
        /\ (~Blank(cell.raw) /\ HasColon(cell.raw.v)) =>
               \E u \in SeedTexts :
                   /\ TrimOf(u, cell.raw.v)
                   /\ cell.row.seed_name.k = "val"
                   /\ TrimOf(cell.row.seed_name.v, Before(u))
                   /\ cell.row.seed_smiles.k = "val"
                   /\ TrimOf(cell.row.seed_smiles.v, After(u))

PartIs(out, part) ==
    \E u \in SeedTexts :
        /\ TrimOf(u, part)
        /\ IF u = <<>> THEN out = Null ELSE out = Val(u)

\* C12 (amended): as stated, except that a part which is empty after
\* trimming is given as null instead of the empty text.
C12_SplitOnFirstColonEmptyIsNull ==
    SeedBuilt =>
        /\ SeedParseCommon
        /\ (~Blank(cell.raw) /\ HasColon(cell.raw.v)) =>
               \E u \in SeedTexts :
                   /\ TrimOf(u, cell.raw.v)
                   /\ PartIs(cell.row.seed_name, Before(u))
                   /\ PartIs(cell.row.seed_smiles, After(u))

\* a padded seed with two colons: the second one stays in seed_smiles
C12_Witness ==
    /\ SeedBuilt
    /\ cell.raw = Val(<<" ", "a", ":", ":">>)
    /\ cell.row.seed_name = Val(<<"a">>)
    /\ cell.row.seed_smiles = Val(<<":">>)

MethodBuilt == cell.pc = "built" /\ cell.column = "discovery_method"
BlankMethod(c) == c.k = "null" \/ c.v.word = ""
Known == {"substructure", "sim2d", "sim3d"}

\* what holds of every input: the default, the mapping of the four known
\* words, and a second application changing nothing
MethodKnownCases ==
    /\ BlankMethod(cell.raw) => cell.method = Lit("substructure")
    /\ (~BlankMethod(cell.raw) /\ cell.raw.v.word = "similarity") => cell.method = Lit("sim2d")
    /\ (~BlankMethod(cell.raw) /\ cell.raw.v.word \in Known) =>
           cell.method = Lit(cell.raw.v.word)
    /\ normalize_discovery_method(Val(cell.method)) = cell.method

\* C13: null or blank gives "substructure"; "similarity" in any case and
\* padding gives "sim2d"; the three known methods give their lower-case
\* form; any other value comes back verbatim; the function is idempotent.
C13_NormalizeMethod ==
    MethodBuilt =>
        /\ MethodKnownCases
        /\ (~BlankMethod(cell.raw) /\ cell.raw.v.word \notin Known \cup {"similarity"}) =>
               cell.method = cell.raw.v

\* the same with the value the code gives to an unknown method: trimmed and
\* in lower case
C13_UnknownMethodLowered ==
    MethodBuilt =>
        /\ MethodKnownCases
        /\ (~BlankMethod(cell.raw) /\ cell.raw.v.word \notin Known \cup {"similarity"}) =>
               cell.method = Lit(cell.raw.v.word)

\* the columns the handler itself names, and the allow-list
FixedColumns == {"dataset_id", "seed_name", "discovery_method", "cid"}
AllowList == {"molecular_weight", "TPSA", "XLogP3", "HBA", "HBD", "rotatable_bonds",
              "mmff94_energy", "shape_volume"}

\* the WHERE half and the default order
C18_WhereFromAllowList ==
    Served =>
        /\ \A i \in 1..Len(q.sql.page.where) :
               q.sql.page.where[i].field \in FixedColumns \cup AllowList
        /\ \A f \in RangeKeys(body) \ AllowList :
               \A i \in 1..Len(q.sql.page.where) : q.sql.page.where[i].field # f
        /\ (body.sort.k = "null" \/ body.sort.v = <<>>) =>
               q.sql.page.order = <<[tbl |-> "m", field |-> "cid", dir |-> "ASC"]>>

\* C18: every column name in the generated WHERE and ORDER BY is taken
\* from the allow-list; a field name given by the caller, as a ranges key
\* or in a sort item, reaches the SQL text only if it is in the allow-list;
\* with no sort the order is cid ascending.
C18_ColumnsFromAllowList ==
    /\ C18_WhereFromAllowList
    /\ Served =>
           \A i \in 1..Len(q.sql.page.order) :
               q.sql.page.order[i].field \in FixedColumns \cup AllowList

\* the request with an empty seed_name and an empty methods left out
WithoutEmptyFilters(b) ==
    [b EXCEPT !.seed_name = IF b.seed_name = Val("") THEN Null ELSE @,
              !.methods = IF b.methods = Val(<<>>) THEN Null ELSE @]

\* C20: seed_name given as "" and methods given as [] are treated as
\* absent: the WHERE and the parameters are those of the request without
\* them, and no condition on seed_name or discovery_method is made for them.
C20_EmptyFiltersAreAbsent ==
    Served =>
        /\ q.sql.page.where = BuildWhere(TheDataset, WithoutEmptyFilters(body)).where
        /\ q.sql.count.args = BuildWhere(TheDataset, WithoutEmptyFilters(body)).args
        /\ body.seed_name = Val("") =>
               \A i \in 1..Len(q.sql.page.where) : q.sql.page.where[i].kind # "seed"
        /\ body.methods = Val(<<>>) =>
               \A i \in 1..Len(q.sql.page.where) : q.sql.page.where[i].kind # "methods"

\* both filters given empty, with a range filter that does count
C20_Witness ==
    /\ Served
    /\ body.seed_name = Val("")
    /\ body.methods = Val(<<>>)
    /\ Len(q.sql.page.where) = 2
    /\ q.sql.page.where[2].kind = "range"

====
